---- MODULE Spec2Model ----
(***************************************************************************)
(* tools/generate-TorControlCommands.py: reads tor's control_cmd.c, finds  *)
(* the CONTROL_COMMANDS table with one regular expression, extracts the    *)
(* tagged entries with a second one and prints one Java constant per       *)
(* entry.                                                                  *)
(*                                                                         *)
(* Text is a sequence of atoms.  An atom is either one character or a      *)
(* literal the two patterns name as a whole (the table name, a tag), so    *)
(* that both patterns are modelled position by position, with their        *)
(* greedy quantifiers and their backtracking.                              *)
(***************************************************************************)
EXTENDS Integers, Sequences, FiniteSets, TLC

VARIABLES pc, chunks, text, m, control_cmd_def_t, matches,
          commands, command_types, idx, output, stdout, error

vars == <<pc, chunks, text, m, control_cmd_def_t, matches,
          commands, command_types, idx, output, stdout, error>>

\* The longest file, counted in chunks.
MaxChunks == 5

----------------------------------------------------------------------------
(* Atoms *)

NL == "\n"
TableName == "control_cmd_def_t CONTROL_COMMANDS[]"
TagAtoms == {"MULTLINE", "OBSOLETE", "ONE_LINE"}
LowerAtoms == {"a", "x"}
UpperAtoms == {"A", "X"}
\* [a-zA-Z0-9_]: the letters, and the tag literals, which are made of them
IdentAtoms == LowerAtoms \cup UpperAtoms \cup TagAtoms
\* \s, and what str.rstrip() strips
Whitespace == {NL, " "}
Atoms == {TableName, "=", "{", "}", "(", ")"} \cup Whitespace \cup IdentAtoms

\* str.upper() on one atom
UpperAtom(c) ==
  CASE c = "a" -> "A"
    [] c = "x" -> "X"
    [] OTHER -> c

\* the name kept as it was captured
UpperDropped(s) == s

\* command.upper()
Upper(s) == [i \in 1..Len(s) |-> UpperAtom(s[i])]

----------------------------------------------------------------------------
(* The files the tool is run on: a concatenation of chunks of C text *)

DeclChunk == <<TableName, " ", "=", " ", "{">>
CloseChunk == <<"}">>
NewlineChunk == <<NL>>
OneLineChunk == <<"ONE_LINE", "(", "a", ")">>
MultlineChunk == <<"MULTLINE", "(", "A", ")">>
ObsoleteChunk == <<"OBSOLETE", "(", "x", "a", ")">>
\* an entry whose tag is none of the three
OtherEntryChunk == <<"x", "(", "a", ")">>
\* a letter; before a tag it makes a longer, unrecognized tag
LetterChunk == <<"X">>

Chunks == {DeclChunk, CloseChunk, NewlineChunk, OneLineChunk, MultlineChunk,
           ObsoleteChunk, OtherEntryChunk, LetterChunk}

RECURSIVE SeqsUpTo(_, _)
SeqsUpTo(S, n) ==
  IF n = 0 THEN {<<>>}
  ELSE LET shorter == SeqsUpTo(S, n - 1)
       IN shorter \cup {Append(s, c) : s \in {t \in shorter : Len(t) = n - 1}, c \in S}

Inputs == SeqsUpTo(Chunks, MaxChunks)

RECURSIVE Flatten(_)
Flatten(cs) == IF cs = <<>> THEN <<>> ELSE Head(cs) \o Flatten(Tail(cs))

----------------------------------------------------------------------------
(* re.search(r'control_cmd_def_t CONTROL_COMMANDS\[]\s*=\s*{\n*([^}]+)}') *)

\* the position after the longest run of atoms of S that starts at i
RECURSIVE SkipWhile(_, _, _)
SkipWhile(s, i, S) ==
  IF i <= Len(s) /\ s[i] \in S THEN SkipWhile(s, i + 1, S) ELSE i

At(s, i, c) == i <= Len(s) /\ s[i] = c

NoMatch == [found |-> FALSE, group |-> <<>>]

\* ([^}]+)} with the group starting at j: the group, or <<>> when there is none
GroupFrom(s, j) ==
  LET r == SkipWhile(s, j, Atoms \ {"}"})
  IN IF r > j /\ At(s, r, "}") THEN SubSeq(s, j, r - 1) ELSE <<>>

\* the pattern tried at position p
MatchTableAt(s, p) ==
  IF ~At(s, p, TableName) THEN NoMatch
  ELSE LET eq == SkipWhile(s, p + 1, Whitespace)
       IN IF ~At(s, eq, "=") THEN NoMatch
          ELSE LET br == SkipWhile(s, eq + 1, Whitespace)
               IN IF ~At(s, br, "{") THEN NoMatch
                  ELSE LET q == br + 1
                           nlEnd == SkipWhile(s, q, {NL})
                           \* \n* is greedy and gives newlines back one by one
                           starts == {j \in q..nlEnd : GroupFrom(s, j) # <<>>}
                       IN IF starts = {} THEN NoMatch
                          ELSE LET j == CHOOSE k \in starts : \A l \in starts : l <= k
                               IN [found |-> TRUE, group |-> GroupFrom(s, j)]

\* re.search: the match at the leftmost position that has one, or None
re_search(s) ==
  LET ps == {p \in 1..Len(s) : MatchTableAt(s, p).found}
  IN IF ps = {} THEN NoMatch
     ELSE MatchTableAt(s, CHOOSE p \in ps : \A q \in ps : p <= q)

\* str.rstrip()
RECURSIVE rstrip(_)
rstrip(s) ==
  IF s # <<>> /\ s[Len(s)] \in Whitespace THEN rstrip(SubSeq(s, 1, Len(s) - 1))
  ELSE s

----------------------------------------------------------------------------
(* re.findall(r'.*(MULTLINE|OBSOLETE|ONE_LINE)\(([a-zA-Z0-9_]+).*') *)

\* (MULTLINE|OBSOLETE|ONE_LINE)\(([a-zA-Z0-9_]+) matches at position i
EntryAt(s, i) ==
  /\ i + 2 <= Len(s)
  /\ s[i] \in TagAtoms
  /\ s[i + 1] = "("
  /\ s[i + 2] \in IdentAtoms

\* the same with a lazy leading .*?, which stops at the first entry of the line
MatchEntryFromLazy(s, start) ==
  LET lineEnd == SkipWhile(s, start, Atoms \ {NL})
      at == {i \in start..(lineEnd - 1) : EntryAt(s, i)}
  IN IF at = {} THEN [found |-> FALSE, type |-> "", command |-> <<>>, end |-> start]
     ELSE LET i == CHOOSE k \in at : \A l \in at : k <= l
              nameEnd == SkipWhile(s, i + 2, IdentAtoms)
          IN [found |-> TRUE, type |-> s[i],
              command |-> SubSeq(s, i + 2, nameEnd - 1), end |-> lineEnd]

\* the pattern tried at position start: '.' matches all but the newline
MatchEntryFrom(s, start) ==
  LET lineEnd == SkipWhile(s, start, Atoms \ {NL})
      at == {i \in start..(lineEnd - 1) : EntryAt(s, i)}
  IN IF at = {} THEN [found |-> FALSE, type |-> "", command |-> <<>>, end |-> start]
     ELSE LET i == CHOOSE k \in at : \A l \in at : l <= k   \* the leading .* is greedy
              nameEnd == SkipWhile(s, i + 2, IdentAtoms)
          IN [found |-> TRUE, type |-> s[i],
              command |-> SubSeq(s, i + 2, nameEnd - 1), end |-> lineEnd]

\* the non-overlapping matches from position pos on, left to right
RECURSIVE FindAllFrom(_, _)
FindAllFrom(s, pos) ==
  IF pos > Len(s) THEN <<>>
  ELSE LET r == MatchEntryFrom(s, pos)
       IN IF r.found THEN <<<<r.type, r.command>>>> \o FindAllFrom(s, r.end)
          ELSE FindAllFrom(s, pos + 1)

re_findall(s) == FindAllFrom(s, 1)

----------------------------------------------------------------------------
(* Output lines *)

BlankLine == [kind |-> "blank", ident |-> <<>>, value |-> <<>>]
\* '    // generated by %s' % __file__
HeaderLine == [kind |-> "header", ident |-> <<>>, value |-> <<>>]
\* '    @Deprecated'
DeprecatedLine == [kind |-> "deprecated", ident |-> <<>>, value |-> <<>>]
\* '    public static final String %s = "+%s";' % (command, command)
MultlineDecl(command) == [kind |-> "decl", ident |-> command, value |-> <<"+">> \o command]
\* '    public static final String %s = "%s";' % (command, command)
PlainDecl(command) == [kind |-> "decl", ident |-> command, value |-> command]

\* the same with the marker written after the declaration
EntryLinesMarkerLast(type, command) ==
  (IF type = "MULTLINE" THEN <<MultlineDecl(command)>> ELSE <<PlainDecl(command)>>)
  \o (IF type = "OBSOLETE" THEN <<DeprecatedLine>> ELSE <<>>)

\* the lines one pass of the emission loop adds for an entry
EntryLines(type, command) ==
  (IF type = "OBSOLETE" THEN <<DeprecatedLine>> ELSE <<>>)
  \o (IF type = "MULTLINE" THEN <<MultlineDecl(command)>> ELSE <<PlainDecl(command)>>)

----------------------------------------------------------------------------
(* The script *)

Init ==
  /\ pc = "open"
  /\ chunks = <<>>
  /\ text = <<>>
  /\ m = NoMatch
  /\ control_cmd_def_t = <<>>
  /\ matches = <<>>
  /\ commands = <<>>
  /\ command_types = <<>>
  /\ idx = 1
  /\ output = <<BlankLine, HeaderLine>>
  /\ stdout = <<>>
  /\ error = "none"

\* open() raises: the file is missing or unreadable
OpenFails ==
  /\ pc = "open"
  /\ pc' = "failed"
  /\ error' = "OSError"
  /\ UNCHANGED <<chunks, text, m, control_cmd_def_t, matches, commands,
                 command_types, idx, output, stdout>>

\* m = re.search(..., fp.read(), re.MULTILINE)
ReadAndSearch ==
  /\ pc = "open"
  /\ \E cs \in Inputs :
       /\ chunks' = cs
       /\ text' = Flatten(cs)
       /\ m' = re_search(Flatten(cs))
  /\ pc' = "group"
  /\ UNCHANGED <<control_cmd_def_t, matches, commands, command_types, idx,
                 output, stdout, error>>

\* control_cmd_def_t = m.group(1).rstrip()
Group ==
  /\ pc = "group"
  /\ IF m.found
       THEN /\ control_cmd_def_t' = rstrip(m.group)
            /\ pc' = "findall"
            /\ error' = error
       ELSE \* None has no attribute 'group'
            /\ control_cmd_def_t' = control_cmd_def_t
            /\ pc' = "failed"
            /\ error' = "AttributeError"
  /\ UNCHANGED <<chunks, text, m, matches, commands, command_types, idx,
                 output, stdout>>

\* re.findall(..., control_cmd_def_t)
FindAll ==
  /\ pc = "findall"
  /\ matches' = re_findall(control_cmd_def_t)
  /\ pc' = "extract"
  /\ UNCHANGED <<chunks, text, m, control_cmd_def_t, commands, command_types,
                 idx, output, stdout, error>>

\* the same, inserting each entry at the front of the lists
ExtractPrepending ==
  /\ pc = "extract"
  /\ IF matches # <<>>
       THEN LET type == Head(matches)[1]
                command == Head(matches)[2]
            IN /\ commands' = <<Upper(command)>> \o commands
               /\ command_types' = <<<<type, Upper(command)>>>> \o command_types
               /\ matches' = Tail(matches)
               /\ pc' = pc
       ELSE /\ pc' = "emit"
            /\ UNCHANGED <<commands, command_types, matches>>
  /\ UNCHANGED <<chunks, text, m, control_cmd_def_t, idx, output, stdout, error>>

\* the same, skipping a command that is already in commands
ExtractOnce ==
  /\ pc = "extract"
  /\ IF matches # <<>>
       THEN LET type == Head(matches)[1]
                command == Head(matches)[2]
                seen == \E i \in 1..Len(commands) : commands[i] = Upper(command)
            IN /\ commands' = IF seen THEN commands ELSE Append(commands, Upper(command))
               /\ command_types' = IF seen THEN command_types
                                    ELSE Append(command_types, <<type, Upper(command)>>)
               /\ matches' = Tail(matches)
               /\ pc' = pc
       ELSE /\ pc' = "emit"
            /\ UNCHANGED <<commands, command_types, matches>>
  /\ UNCHANGED <<chunks, text, m, control_cmd_def_t, idx, output, stdout, error>>

\* one pass of: for type, command in re.findall(...)
Extract ==
  /\ pc = "extract"
  /\ IF matches # <<>>
       THEN LET type == Head(matches)[1]
                command == Head(matches)[2]
            IN /\ commands' = Append(commands, Upper(command))
               /\ command_types' = Append(command_types, <<type, Upper(command)>>)
               /\ matches' = Tail(matches)
               /\ pc' = pc
       ELSE /\ pc' = "emit"
            /\ UNCHANGED <<commands, command_types, matches>>
  /\ UNCHANGED <<chunks, text, m, control_cmd_def_t, idx, output, stdout, error>>

\* the same, printing each entry's lines as they are made
EmitPrinting ==
  /\ pc = "emit"
  /\ IF idx <= Len(command_types)
       THEN /\ output' = output \o EntryLines(command_types[idx][1], command_types[idx][2])
            /\ stdout' = stdout \o EntryLines(command_types[idx][1], command_types[idx][2])
            /\ idx' = idx + 1
            /\ pc' = pc
       ELSE /\ pc' = "print"
            /\ UNCHANGED <<output, idx, stdout>>
  /\ UNCHANGED <<chunks, text, m, control_cmd_def_t, matches, commands,
                 command_types, error>>

\* one pass of: for type, command in command_types
Emit ==
  /\ pc = "emit"
  /\ IF idx <= Len(command_types)
       THEN /\ output' = output \o EntryLines(command_types[idx][1], command_types[idx][2])
            /\ idx' = idx + 1
            /\ pc' = pc
       ELSE /\ pc' = "print"
            /\ UNCHANGED <<output, idx>>
  /\ UNCHANGED <<chunks, text, m, control_cmd_def_t, matches, commands,
                 command_types, stdout, error>>

\* print(output): the text and the newline print adds
PrintOutput ==
  /\ pc = "print"
  /\ stdout' = Append(output, BlankLine)
  /\ pc' = "done"
  /\ UNCHANGED <<chunks, text, m, control_cmd_def_t, matches, commands,
                 command_types, idx, output, error>>

Next ==
  \/ OpenFails
  \/ ReadAndSearch
  \/ Group
  \/ FindAll
  \/ Extract
  \/ Emit
  \/ PrintOutput

Spec == Init /\ [][Next]_vars

----------------------------------------------------------------------------
(* What the file holds, read chunk by chunk.  These definitions describe    *)
(* the input; the script never evaluates them.                              *)

EntryChunks == {OneLineChunk, MultlineChunk, ObsoleteChunk}
TagOf(c) == c[1]
RawNameOf(c) == SubSeq(c, 3, Len(c) - 1)

Least(S) == CHOOSE x \in S : \A y \in S : x <= y

DeclPositions == {p \in 1..Len(chunks) : chunks[p] = DeclChunk}
ClosesAfter(p) == {r \in (p + 1)..Len(chunks) : chunks[r] = CloseChunk}

\* the chunks strictly between the declaration at p and the first '}' after it
SpanOf(p) == SubSeq(chunks, p + 1, Least(ClosesAfter(p)) - 1)

\* the first declaration of the table has a closing brace
FirstTableClosed == DeclPositions # {} /\ ClosesAfter(Least(DeclPositions)) # {}
FirstTableSpan == SpanOf(Least(DeclPositions))

\* the declarations whose braces enclose at least one character
NonEmptyTables == {p \in DeclPositions : ClosesAfter(p) # {} /\ SpanOf(p) # <<>>}
TableFound == NonEmptyTables # {}
TableSpan == SpanOf(Least(NonEmptyTables))

\* Per line of a span, the last entry chunk on it.  With strict, an entry
\* whose tag is glued to a preceding letter is an entry with another tag.
RECURSIVE LastPerLine(_, _, _, _)
LastPerLine(cs, cur, prev, strict) ==
  IF cs = <<>> THEN cur
  ELSE LET c == Head(cs)
       IN IF c = NewlineChunk
            THEN cur \o LastPerLine(Tail(cs), <<>>, c, strict)
          ELSE IF c \in EntryChunks /\ ~(strict /\ prev = LetterChunk)
            THEN LastPerLine(Tail(cs), <<c>>, c, strict)
          ELSE LastPerLine(Tail(cs), cur, c, strict)

MatchedEntries(span) == LastPerLine(span, <<>>, <<>>, FALSE)
ExactlyTaggedEntries(span) == LastPerLine(span, <<>>, <<>>, TRUE)

CasePairs == {<<"a", "A">>, <<"x", "X">>}
\* two identifiers that differ in casing at most
SameIgnoringCase(x, y) ==
  /\ Len(x) = Len(y)
  /\ \A i \in 1..Len(x) :
       x[i] = y[i] \/ <<x[i], y[i]>> \in CasePairs \/ <<y[i], x[i]>> \in CasePairs
IsUpperOf(u, x) ==
  /\ Len(u) = Len(x)
  /\ \A i \in 1..Len(x) :
       \/ <<x[i], u[i]>> \in CasePairs
       \/ x[i] \notin {"a", "x"} /\ u[i] = x[i]

IsDecl(l) == l.kind = "decl"
Decls(lines) == SelectSeq(lines, IsDecl)
\* the command keyword in a declaration's string value
Keyword(l) == IF l.value # <<>> /\ Head(l.value) = "+" THEN Tail(l.value) ELSE l.value

\* the extracted entries are those of the span es, in order, upper-cased
ExtractedAre(es) ==
  /\ Len(command_types) = Len(es)
  /\ \A i \in 1..Len(es) :
       /\ command_types[i][1] = TagOf(es[i])
       /\ IsUpperOf(command_types[i][2], RawNameOf(es[i]))

----------------------------------------------------------------------------
(* Claims *)

\* C1: when the table is found, the i-th declaration printed is for the
\* i-th entry matched in the table, in the order of the source.
C1_OrderPreserved ==
  pc = "done" =>
    /\ TableFound
    /\ LET ds == Decls(stdout)
           es == MatchedEntries(TableSpan)
       IN /\ Len(ds) = Len(es)
          /\ \A i \in 1..Len(es) : IsUpperOf(ds[i].ident, RawNameOf(es[i]))

C1_Witness ==
  /\ pc = "done"
  /\ Len(Decls(stdout)) >= 2
  /\ Decls(stdout)[1].ident # Decls(stdout)[2].ident

\* C2: an OBSOLETE entry is declared right after a @Deprecated line with
\* the bare name as value, a MULTLINE entry with '+' and the name and no
\* marker before it, a ONE_LINE entry with the bare name and no marker
\* before it; no other @Deprecated line is printed.
C2_CategoryMapping ==
  pc = "done" =>
    LET es == MatchedEntries(TableSpan)
        at == {i \in 1..Len(stdout) : IsDecl(stdout[i])}
        \* the position of the k-th declaration
        pos(k) == CHOOSE i \in at : Cardinality({j \in at : j <= i}) = k
    IN /\ Cardinality(at) = Len(es)
       /\ \A k \in 1..Len(es) :
            LET d == stdout[pos(k)]
                marked == stdout[pos(k) - 1] = DeprecatedLine
            IN CASE TagOf(es[k]) = "OBSOLETE" -> marked /\ d.value = d.ident
                 [] TagOf(es[k]) = "MULTLINE" -> ~marked /\ d.value = <<"+">> \o d.ident
                 [] TagOf(es[k]) = "ONE_LINE" -> ~marked /\ d.value = d.ident
       /\ \A i \in 1..Len(stdout) :
            stdout[i] = DeprecatedLine =>
              /\ i + 1 \in at
              /\ TagOf(es[Cardinality({j \in at : j <= i + 1})]) = "OBSOLETE"

C2_Witness ==
  /\ pc = "done"
  /\ \E i, j \in 1..Len(command_types) :
       command_types[i][1] = "OBSOLETE" /\ command_types[j][1] = "MULTLINE"

\* C3: a file without the table declaration makes the tool fail with an
\* ExtractionError and print nothing.
C3_MissingTableIsExtractionError ==
  (pc = "failed" /\ error # "OSError" /\ DeclPositions = {}) =>
    error = "ExtractionError" /\ stdout = <<>>

\* C4: nothing is printed before the read and the extraction have
\* succeeded and every entry is processed; a failed run prints nothing; a
\* successful one prints the whole document at once.
C4_AllOrNothing ==
  /\ pc # "done" => stdout = <<>>
  /\ pc = "done" =>
       /\ error = "none" /\ m.found
       /\ matches = <<>> /\ idx = Len(command_types) + 1
       /\ Len(Decls(output)) = Len(command_types)
       /\ stdout = Append(output, BlankLine)

\* an entry's lines are in output, a second entry is still to come, and
\* nothing is printed yet
C4_Witness ==
  /\ pc = "emit"
  /\ idx = 2
  /\ Len(command_types) >= 2
  /\ Len(Decls(output)) = 1
  /\ stdout = <<>>

\* C5: whatever the casing of a captured identifier x, the constant's
\* identifier and the keyword in its value are both upper(x).
C5_NameCasing ==
  pc = "done" =>
    LET ds == Decls(stdout)
        es == MatchedEntries(TableSpan)
    IN \A i \in 1..Len(ds) :
         /\ i <= Len(es)
         /\ IsUpperOf(ds[i].ident, RawNameOf(es[i]))
         /\ IsUpperOf(Keyword(ds[i]), RawNameOf(es[i]))

C5_Witness ==
  /\ pc = "done"
  /\ \E i \in 1..Len(Decls(stdout)) :
       /\ Decls(stdout)[i].ident = <<"X", "A">>
       /\ MatchedEntries(TableSpan)[i] = ObsoleteChunk

\* C6: a table with no recognized entry, one with nothing between its
\* braces included, yields the header alone and no error.
C6_EmptyTableIsValid ==
  (/\ pc \in {"failed", "done"}
   /\ FirstTableClosed
   /\ \A i \in 1..Len(FirstTableSpan) : FirstTableSpan[i] \notin EntryChunks) =>
    /\ pc = "done"
    /\ error = "none"
    /\ stdout = <<BlankLine, HeaderLine, BlankLine>>

\* C7: an entry whose tag is not exactly MULTLINE, OBSOLETE or ONE_LINE
\* yields no entry and changes nothing for the others: the extracted entries
\* are those whose tag is exactly one of the three.
C7_UnrecognizedTagsSkipped ==
  pc = "emit" => ExtractedAre(ExactlyTaggedEntries(TableSpan))

\* C8: no deduplication: each name is declared as many times as entries
\* with that name were matched.
C8_NoDeduplication ==
  pc = "done" =>
    LET ds == Decls(stdout)
        es == MatchedEntries(TableSpan)
    IN /\ Len(ds) = Len(es)
       /\ \A e \in EntryChunks :
            Cardinality({i \in 1..Len(ds) : IsUpperOf(ds[i].ident, RawNameOf(e))})
              = Cardinality({i \in 1..Len(es) : SameIgnoringCase(RawNameOf(es[i]), RawNameOf(e))})

C8_Witness ==
  /\ pc = "done"
  /\ Len(Decls(stdout)) >= 2
  /\ Decls(stdout)[1].ident = Decls(stdout)[2].ident

\* C9: entries come only from between the opening brace of the first
\* declaration of the table and the first closing brace after it.
C9_WindowIsFirstTable ==
  pc = "emit" => FirstTableClosed /\ ExtractedAre(MatchedEntries(FirstTableSpan))

\* C10: at most one entry per line of the span, the last tagged entry of
\* the line, so never more entries than lines.
C10_OneEntryPerLine ==
  pc = "emit" =>
    /\ ExtractedAre(MatchedEntries(TableSpan))
    /\ Len(command_types) <=
         Cardinality({i \in 1..Len(control_cmd_def_t) : control_cmd_def_t[i] = NL})
           + (IF control_cmd_def_t = <<>> THEN 0 ELSE 1)

C10_Witness ==
  /\ pc = "emit"
  /\ Len(command_types) = 1
  /\ \E i \in 1..(Len(TableSpan) - 1) :
       /\ TableSpan[i] \in EntryChunks
       /\ TableSpan[i + 1] \in EntryChunks
       /\ TableSpan[i] # TableSpan[i + 1]

====
